---- MODULE Spec2Model ----
(***************************************************************************)
(* Model of the printer socket installer.  The repository holds two        *)
(* versions of the same program, both `package main`:                      *)
(*   "escpos"  src/unnamed/part_000  discovers printers under /dev/usb,    *)
(*             asks the user to choose one, and templates the service unit *)
(*   "epson"   src/main.go           writes a fixed service unit           *)
(* A run is one execution of main() of one version.  The environment (the  *)
(* effective uid, the device nodes, the unit files already on disk, how    *)
(* much input stdin holds) is chosen in Init; the outcome of every file    *)
(* write, every read of stdin and every systemctl command is chosen when   *)
(* the step happens.                                                       *)
(***************************************************************************)
EXTENDS Integers, Sequences, FiniteSets, TLC

\* Number of candidate nodes /dev/usb/lp0 .. under /dev/usb.
MaxDevices == 2
\* Number of reads of stdin that can still return data; later reads are at EOF.
MaxReads == 2

VARIABLES
    variant,          \* which version of the program runs
    euid,             \* os.Geteuid()
    devs,             \* state of each candidate device node
    inputLeft,        \* reads of stdin left before permanent end-of-file
    fs0,              \* unit files on disk when the run starts
    fs,               \* unit files on disk now
    pc,               \* position of main()
    printers,         \* result of findPrinters()
    shown,            \* numbered list printed by selectPrinter
    choice,           \* selectPrinter's local `choice`
    lastRead,         \* outcome of the latest fmt.Scanln
    selectedPrinter,  \* main's selectedPrinter
    nPrompts,         \* prompts printed (saturating at CountCap)
    nReads,           \* calls of fmt.Scanln (saturating at CountCap)
    k,                \* index of the command loop (1-based)
    hist,             \* steps of main() executed so far, in order
    started,          \* systemctl commands started, in order
    applied,          \* systemctl commands that returned success, in order
    written,          \* unit file paths written without error
    complete,         \* the completion message was printed
    exitCode,         \* process exit status, -1 while running
    fatalMsg          \* which log.Fatal ended the run, "" if none

vars == <<variant, euid, devs, inputLeft, fs0, fs, pc, printers, shown, choice,
          lastRead, selectedPrinter, nPrompts, nReads, k, hist, started,
          applied, written, complete, exitCode, fatalMsg>>

env == <<variant, euid, devs, inputLeft, fs0>>

Variants == {"escpos", "epson"}
HasSelection(v) == v = "escpos"

\* ------------------------------------------------------------------ text

socketFileContent(v) ==
    IF v = "escpos"
    THEN <<"[Unit]", "Description=ESC/POS Printer Socket", "",
           "[Socket]", "ListenStream=0.0.0.0:9100", "Accept=yes", "",
           "[Install]", "WantedBy=sockets.target">>
    ELSE <<"[Unit]", "Description=Epson Printer Socket", "",
           "[Socket]", "ListenStream=0.0.0.0:9100", "Accept=yes", "",
           "[Install]", "WantedBy=sockets.target">>

\* mutant: the template lost its parameter (the fixed path of the older version)
serviceFileContentFixed(printerPath) ==
    <<"[Unit]", "Description=ESC/POS Printer Service", "",
      "[Service]", "ExecStart=-/usr/bin/tee /dev/null > /dev/usb/lp0",
      "StandardInput=socket">>

\* fmt.Sprintf with one %s: the text before it, the argument, the text after it
serviceFileContent(printerPath) ==
    <<"[Unit]", "Description=ESC/POS Printer Service", "",
      "[Service]", "ExecStart=-/usr/bin/tee /dev/null > " \o printerPath,
      "StandardInput=socket">>

epsonServiceFileContent ==
    <<"[Unit]", "Description=Epson Printer Service", "",
      "[Service]", "ExecStart=-/usr/bin/tee /dev/null > /dev/usb/lp0",
      "StandardInput=socket">>

socketFilePath(v) ==
    IF v = "escpos" THEN "/etc/systemd/system/escpos-printer.socket"
                    ELSE "/etc/systemd/system/epson-printer.socket"

\* mutant: copy and paste, the service unit goes to the socket unit's path
serviceFilePathOfSocket(v) == socketFilePath(v)

serviceFilePath(v) ==
    IF v = "escpos" THEN "/etc/systemd/system/escpos-printer@.service"
                    ELSE "/etc/systemd/system/epson-printer@.service"

socketUnit(v) ==
    IF v = "escpos" THEN "escpos-printer.socket" ELSE "epson-printer.socket"

\* mutant: the socket is enabled before systemd has reloaded its units
commandsEnableFirst(v) ==
    << <<"systemctl", "enable", "--now", socketUnit(v)>>,
       <<"systemctl", "daemon-reload">>,
       <<"systemctl", "restart", socketUnit(v)>> >>

\* part_000 137-141, main.go 67-71
commands(v) ==
    << <<"systemctl", "daemon-reload">>,
       <<"systemctl", "enable", "--now", socketUnit(v)>>,
       <<"systemctl", "restart", socketUnit(v)>> >>

\* ------------------------------------------------------------ file system

Absent == [exists |-> FALSE, data |-> <<>>]
OldFile == [exists |-> TRUE, data |-> <<"old">>]
File(data) == [exists |-> TRUE, data |-> data]

\* the unit files of either version; a run touches only its own
UnitDir ==
    {"/etc/systemd/system/escpos-printer.socket",
     "/etc/systemd/system/escpos-printer@.service",
     "/etc/systemd/system/epson-printer.socket",
     "/etc/systemd/system/epson-printer@.service"}

OwnUnits(v) ==
    IF v = "escpos"
    THEN {"/etc/systemd/system/escpos-printer.socket",
          "/etc/systemd/system/escpos-printer@.service"}
    ELSE {"/etc/systemd/system/epson-printer.socket",
          "/etc/systemd/system/epson-printer@.service"}

\* os.WriteFile opens with O_WRONLY|O_CREATE|O_TRUNC, writes, closes.  When it
\* fails the file is either untouched (the open failed) or truncated and
\* holding a proper prefix of the data.
FailedWrite(old, data) ==
    {old} \cup {File(SubSeq(data, 1, n)) : n \in 0..(Len(data) - 1)}

\* ------------------------------------------------------------- discovery

DevNames == <<"/dev/usb/lp0", "/dev/usb/lp1", "/dev/usb/lp2", "/dev/usb/lp3">>
DevPaths == {DevNames[i] : i \in 1..MaxDevices}
\* absent: no such node; chr: character device; reg: some other kind of file;
\* staterr: the name is listed but os.Stat fails
DevStates == {"absent", "chr", "reg", "staterr"}

\* filepath.Glob returns an error only for a malformed pattern; the pattern
\* "/dev/usb/lp*" is well formed.
GlobPatternMalformed == FALSE

\* filepath.Glob("/dev/usb/lp*"): the names present, in lexical order
RECURSIVE GlobFrom(_, _)
GlobFrom(d, i) ==
    IF i > MaxDevices THEN <<>>
    ELSE (IF d[DevNames[i]] # "absent" THEN <<DevNames[i]>> ELSE <<>>)
         \o GlobFrom(d, i + 1)

Glob(d) == GlobFrom(d, 1)

\* the filter loop of findPrinters
RECURSIVE FilterCharDevices(_, _)
FilterCharDevices(d, matches) ==
    IF matches = <<>> THEN <<>>
    ELSE LET match == Head(matches)
             rest == FilterCharDevices(d, Tail(matches))
         IN  IF d[match] = "staterr" THEN rest
             ELSE IF d[match] = "chr" THEN <<match>> \o rest
             ELSE rest

findPrinters(d) == FilterCharDevices(d, Glob(d))

\* ------------------------------------------------------------- selection

CountCap == MaxReads + 1
Bump(n) == IF n < CountCap THEN n + 1 ELSE n

Numbers == 0..(MaxDevices + 1)

\* What one fmt.Scanln(&choice) can do: err is whether it returned an error,
\* set whether it stored a parsed integer in choice before returning.
\*   "2\n"      -> no error, choice = 2
\*   "abc\n"    -> error, choice untouched
\*   "2 abc\n"  -> choice = 2, then error "expected newline"
ReadOutcomes ==
    {[err |-> FALSE, set |-> TRUE, val |-> n] : n \in Numbers}
    \cup {[err |-> TRUE, set |-> FALSE, val |-> 0]}
    \cup {[err |-> TRUE, set |-> TRUE, val |-> n] : n \in Numbers}

EofOutcome == [err |-> TRUE, set |-> FALSE, val |-> 0]
NoRead == [err |-> FALSE, set |-> FALSE, val |-> 0]

Scanln(outcome, old) == IF outcome.set THEN outcome.val ELSE old

\* mutant: the error of the read is not looked at
InvalidIgnoringErr(err, c, n) == c < 1 \/ c > n

\* the condition of line 79
Invalid(err, c, n) == err \/ c < 1 \/ c > n

\* mutant: the length check is gone
NoPrintersNever(ps) == FALSE

\* the condition of line 66
NoPrinters(ps) == Len(ps) = 0

\* the numbered list of lines 71-73
RECURSIVE Numbered(_, _)
Numbered(ps, i) ==
    IF i >= Len(ps) THEN <<>>
    ELSE << <<i + 1, ps[i + 1]>> >> \o Numbered(ps, i + 1)

\* ------------------------------------------------------------------ main

\* mutant: any user passes
IsRootAlways(e) == TRUE

IsRoot(e) == e = 0

Fatal(msg) ==
    /\ pc' = "exit"
    /\ exitCode' = 1
    /\ fatalMsg' = msg

Init ==
    /\ variant \in Variants
    /\ euid \in {0, 1000}
    /\ devs \in [DevPaths -> DevStates]
    /\ inputLeft \in 0..MaxReads
    /\ HasSelection(variant) \/ (inputLeft = 0 /\ devs = [p \in DevPaths |-> "absent"])
    /\ fs0 \in [UnitDir -> {Absent, OldFile}]
    /\ \A p \in UnitDir \ OwnUnits(variant) : fs0[p] = Absent
    /\ fs = fs0
    /\ pc = "checkRoot"
    /\ printers = <<>>
    /\ shown = <<>>
    /\ choice = 0
    /\ lastRead = NoRead
    /\ selectedPrinter = ""
    /\ nPrompts = 0
    /\ nReads = 0
    /\ k = 1
    /\ hist = <<>>
    /\ started = <<>>
    /\ applied = <<>>
    /\ written = {}
    /\ complete = FALSE
    /\ exitCode = -1
    /\ fatalMsg = ""

\* part_000 95-98, main.go 42-45
CheckRoot ==
    /\ pc = "checkRoot"
    /\ hist' = Append(hist, "checkRoot")
    /\ IF ~IsRoot(euid)
       THEN Fatal("root")
       ELSE /\ pc' = IF HasSelection(variant) THEN "find" ELSE "writeSocket"
            /\ UNCHANGED <<exitCode, fatalMsg>>
    /\ UNCHANGED <<env, fs, printers, shown, choice, lastRead, selectedPrinter,
                   nPrompts, nReads, k, started, applied, written, complete>>

\* part_000 101-108
FindPrinters ==
    /\ pc = "find"
    /\ hist' = Append(hist, "find")
    /\ IF GlobPatternMalformed
       THEN /\ Fatal("find")
            /\ UNCHANGED printers
       ELSE /\ printers' = findPrinters(devs)
            /\ pc' = "select"
            /\ UNCHANGED <<exitCode, fatalMsg>>
    /\ UNCHANGED <<env, fs, shown, choice, lastRead, selectedPrinter, nPrompts,
                   nReads, k, started, applied, written, complete>>

\* part_000 110-113 with 65-75: the call of selectPrinter up to its loop
SelectEnter ==
    /\ pc = "select"
    /\ hist' = Append(hist, "select")
    /\ IF NoPrinters(printers)
       THEN /\ Fatal("select")
            /\ UNCHANGED <<shown, choice>>
       ELSE /\ shown' = Numbered(printers, 0)
            /\ choice' = 0
            /\ pc' = "prompt"
            /\ UNCHANGED <<exitCode, fatalMsg>>
    /\ UNCHANGED <<env, fs, printers, lastRead, selectedPrinter, nPrompts,
                   nReads, k, started, applied, written, complete>>

\* part_000 77
Prompt ==
    /\ pc = "prompt"
    /\ nPrompts' = Bump(nPrompts)
    /\ pc' = "scan"
    /\ UNCHANGED <<env, fs, printers, shown, choice, lastRead, selectedPrinter,
                   nReads, k, hist, started, applied, written, complete,
                   exitCode, fatalMsg>>

\* mutant: after a rejected read the loop goes back to the read, not the prompt
AfterInvalidNoPrompt == "scan"

\* `continue` of line 81 re-enters the loop body at the prompt
AfterInvalid == "prompt"

\* mutant: off by one, printers[choice]
ReturnIndexOffByOne(c) == c

\* line 86: printers[choice-1]
ReturnIndex(c) == c - 1

\* Go slice indexing, 0-based
InRange(ps, i) == 0 <= i /\ i < Len(ps)
At(ps, i) == ps[i + 1]

\* part_000 78-86 and 114: one read, then either `continue` or the return
ScanWith(outcome) ==
    LET c == Scanln(outcome, choice) IN
    /\ lastRead' = outcome
    /\ choice' = c
    /\ nReads' = Bump(nReads)
    /\ inputLeft' = IF inputLeft > 0 THEN inputLeft - 1 ELSE 0
    /\ IF Invalid(outcome.err, c, Len(printers))
       THEN /\ pc' = AfterInvalid
            /\ UNCHANGED <<selectedPrinter, hist, exitCode, fatalMsg>>
       ELSE IF InRange(printers, ReturnIndex(c))
       THEN /\ selectedPrinter' = At(printers, ReturnIndex(c))
            /\ hist' = Append(hist, "selected")
            /\ pc' = "writeSocket"
            /\ UNCHANGED <<exitCode, fatalMsg>>
       ELSE \* index out of range: the runtime panics, exit status 2
            /\ pc' = "exit"
            /\ exitCode' = 2
            /\ fatalMsg' = "panic"
            /\ UNCHANGED <<selectedPrinter, hist>>
    /\ UNCHANGED <<variant, euid, devs, fs0, fs, printers, shown, nPrompts, k,
                   started, applied, written, complete>>

Scan ==
    /\ pc = "scan"
    /\ IF inputLeft = 0
       THEN ScanWith(EofOutcome)
       ELSE \E outcome \in ReadOutcomes : ScanWith(outcome)

\* mutant: the error returned by os.WriteFile is dropped
WriteErrIgnored(ok) == FALSE

\* `if err != nil` after os.WriteFile (part_000 122 and 130, main.go 53 and 59)
WriteErr(ok) == ~ok

\* os.WriteFile(path, data, 0644) followed by its error check
WriteFile(path, data, step, next) ==
    /\ hist' = Append(hist, step)
    /\ \E ok \in BOOLEAN :
        /\ IF ok
           THEN /\ fs' = [fs EXCEPT ![path] = File(data)]
                /\ written' = written \cup {path}
           ELSE /\ \E f \in FailedWrite(fs[path], data) :
                      fs' = [fs EXCEPT ![path] = f]
                /\ UNCHANGED written
        /\ IF WriteErr(ok)
           THEN Fatal(step)
           ELSE /\ pc' = next
                /\ UNCHANGED <<exitCode, fatalMsg>>
    /\ UNCHANGED <<env, printers, shown, choice, lastRead, selectedPrinter,
                   nPrompts, nReads, k, started, applied, complete>>

\* part_000 121-125, main.go 52-56
WriteSocket ==
    /\ pc = "writeSocket"
    /\ WriteFile(socketFilePath(variant), socketFileContent(variant),
                 "writeSocket", "writeService")

\* part_000 128 and main.go 28-34: the text of the service unit
serviceContent ==
    IF HasSelection(variant) THEN serviceFileContent(selectedPrinter)
                             ELSE epsonServiceFileContent

\* part_000 128-133, main.go 58-62
WriteService ==
    /\ pc = "writeService"
    /\ WriteFile(serviceFilePath(variant), serviceContent,
                 "writeService", "exec")

\* mutant: a failed command does not stop the loop
CmdErrIgnored(ok) == FALSE

\* `if err != nil` after cmd.CombinedOutput() (part_000 147, main.go 77)
CmdErr(ok) == ~ok

\* part_000 143-146, main.go 73-76: the loop takes the next command and starts it
ExecStart ==
    /\ pc = "exec"
    /\ k <= Len(commands(variant))
    /\ started' = Append(started, commands(variant)[k])
    /\ hist' = Append(hist, "exec")
    /\ pc' = "wait"
    /\ UNCHANGED <<env, fs, printers, shown, choice, lastRead, selectedPrinter,
                   nPrompts, nReads, k, applied, written, complete,
                   exitCode, fatalMsg>>

\* part_000 146-150, main.go 76-80: the command returns and its error is checked
CmdReturn ==
    /\ pc = "wait"
    /\ \E ok \in BOOLEAN :
        /\ applied' = IF ok THEN Append(applied, commands(variant)[k]) ELSE applied
        /\ IF CmdErr(ok)
           THEN /\ Fatal("command")
                /\ UNCHANGED k
           ELSE /\ k' = k + 1
                /\ pc' = "exec"
                /\ UNCHANGED <<exitCode, fatalMsg>>
    /\ UNCHANGED <<env, fs, printers, shown, choice, lastRead, selectedPrinter,
                   nPrompts, nReads, hist, started, written, complete>>

\* part_000 153-155, main.go 83-85: the loop is over, main prints and returns
Finish ==
    /\ pc = "exec"
    /\ k > Len(commands(variant))
    /\ complete' = TRUE
    /\ pc' = "exit"
    /\ exitCode' = 0
    /\ UNCHANGED <<env, fs, printers, shown, choice, lastRead, selectedPrinter,
                   nPrompts, nReads, k, hist, started, applied, written, fatalMsg>>

Next ==
    \/ CheckRoot
    \/ FindPrinters
    \/ SelectEnter
    \/ Prompt
    \/ Scan
    \/ WriteSocket
    \/ WriteService
    \/ ExecStart
    \/ CmdReturn
    \/ Finish

Spec == Init /\ [][Next]_vars

\* Every step of main() is taken as soon as it can be: the process is
\* scheduled, file writes return and systemctl returns.
FairSpec == Spec /\ WF_vars(Next)

\* ---------------------------------------------------------- properties

InHist(step) == \E i \in 1..Len(hist) : hist[i] = step
Count(step) == Cardinality({i \in 1..Len(hist) : hist[i] = step})
Range(seq) == {seq[i] : i \in 1..Len(seq)}

\* what the two versions are expected to write and run, spelled out
ExpSocketPath ==
    IF variant = "escpos" THEN "/etc/systemd/system/escpos-printer.socket"
                          ELSE "/etc/systemd/system/epson-printer.socket"
ExpServicePath ==
    IF variant = "escpos" THEN "/etc/systemd/system/escpos-printer@.service"
                          ELSE "/etc/systemd/system/epson-printer@.service"
ExpUnit ==
    IF variant = "escpos" THEN "escpos-printer.socket" ELSE "epson-printer.socket"
ExpCommands ==
    << <<"systemctl", "daemon-reload">>,
       <<"systemctl", "enable", "--now", ExpUnit>>,
       <<"systemctl", "restart", ExpUnit>> >>
ExpSocketData ==
    <<"[Unit]",
      IF variant = "escpos" THEN "Description=ESC/POS Printer Socket"
                            ELSE "Description=Epson Printer Socket",
      "", "[Socket]", "ListenStream=0.0.0.0:9100", "Accept=yes", "",
      "[Install]", "WantedBy=sockets.target">>

IsPrefix(a, b) == Len(a) <= Len(b) /\ a = SubSeq(b, 1, Len(a))

\* C1: the systemctl commands are started in the order daemon-reload,
\* enable --now <socket unit>, restart <socket unit>; command k is started only
\* after commands 1..k-1 returned success; once a command has returned an
\* error nothing more is started and the run has exited with a fatal error.
C1_CommandsInOrderFailFast ==
    /\ IsPrefix(started, ExpCommands)
    /\ IsPrefix(applied, started)
    /\ Len(started) - Len(applied) <= 1
    /\ (Len(applied) < Len(started) /\ pc # "wait")
          => (pc = "exit" /\ exitCode = 1 /\ fatalMsg = "command" /\ ~complete)
    /\ (pc = "wait") => (Len(started) = Len(applied) + 1)

\* the second command has failed
C1_Witness ==
    /\ pc = "exit"
    /\ fatalMsg = "command"
    /\ Len(started) = 2
    /\ Len(applied) = 1

\* C2: when the effective uid is not 0 the run exits with a fatal error and has
\* discovered nothing, prompted for nothing, read nothing, written no file and
\* started no command.
C2_NonRootHasNoEffect ==
    (euid # 0) =>
        /\ pc \in {"checkRoot", "exit"}
        /\ (pc = "exit") => (exitCode = 1 /\ fatalMsg = "root")
        /\ ~InHist("find") /\ ~InHist("select")
        /\ printers = <<>> /\ shown = <<>>
        /\ nPrompts = 0 /\ nReads = 0
        /\ fs = fs0 /\ written = {}
        /\ started = <<>> /\ applied = <<>>
        /\ ~complete

C2_Witness ==
    /\ euid # 0
    /\ pc = "exit"
    /\ fatalMsg = "root"
    /\ \E p \in UnitDir : fs0[p] = OldFile

\* position of each step of main() in the one order the steps may take
StepRank(step) ==
    CASE step = "checkRoot" -> 1
      [] step = "find" -> 2
      [] step = "select" -> 3
      [] step = "selected" -> 4
      [] step = "writeSocket" -> 5
      [] step = "writeService" -> 6
      [] step = "exec" -> 7

\* C3: the steps happen in one fixed order and none is repeated: (in the
\* version that selects a printer) the selection has returned before a file is
\* written, the socket unit is written before the service unit, both units
\* have been written without error before the first systemctl command is
\* started, and each command is started at most once.
C3_StepsInFixedOrder ==
    /\ \A i, j \in 1..Len(hist) :
          i < j => /\ StepRank(hist[i]) <= StepRank(hist[j])
                   /\ (hist[j] # "exec") => (StepRank(hist[i]) < StepRank(hist[j]))
    /\ Count("exec") = Len(started)
    /\ Len(started) <= 3
    /\ \A i, j \in 1..Len(started) : i < j => started[i] # started[j]
    /\ (HasSelection(variant) /\ InHist("writeSocket"))
          => (InHist("selected") /\ selectedPrinter \in Range(printers))
    /\ InHist("writeService") => (InHist("writeSocket") /\ ExpSocketPath \in written)
    /\ (started # <<>>) => (written = {ExpSocketPath, ExpServicePath})

\* a whole run of the selecting version: nine steps, then the exit
C3_Witness ==
    /\ HasSelection(variant)
    /\ pc = "exit"
    /\ hist = <<"checkRoot", "find", "select", "selected", "writeSocket",
                "writeService", "exec", "exec", "exec">>

\* C4 as stated: the prompt is issued exactly once and exactly one read is
\* performed before the program proceeds.
C4_Original ==
    /\ nPrompts <= 1
    /\ nReads <= 1
    /\ InHist("selected") => (nPrompts = 1 /\ nReads = 1)

\* C4 amended: the prompt is issued once per read, the first time before any
\* read and again after every rejected read; the program proceeds at the first
\* read that returns without error a number of the list, so when it proceeds
\* there have been as many prompts as reads, at least one of each, and every
\* read but the last was rejected.  (Counters read CountCap for "CountCap or
\* more"; a run that proceeds stays below it.)
C4_OnePromptPerRead ==
    /\ (pc = "prompt") => (nPrompts = nReads)
    /\ (pc = "scan") => \/ nPrompts = nReads + 1
                        \/ (nPrompts = CountCap /\ nReads = CountCap)
    /\ (pc = "prompt" /\ nReads > 0)
          => (lastRead.err \/ choice < 1 \/ choice > Len(printers))
    /\ (pc \in {"select", "find", "checkRoot"}) => (nPrompts = 0 /\ nReads = 0)
    /\ InHist("selected")
          => /\ nPrompts = nReads
             /\ nReads >= 1
             /\ nReads < CountCap
             /\ ~lastRead.err
             /\ choice \in 1..Len(printers)

\* the program proceeds after one rejected read and one accepted read
C4_Witness ==
    /\ InHist("selected")
    /\ nPrompts = 2
    /\ nReads = 2

\* C5: once the service unit has been written, its ExecStart line redirects to
\* the selected printer and nothing else in it depends on the printer; once the
\* socket unit has been written it holds the same text whatever was selected.
C5_ServiceTargetsSelectedPrinter ==
    /\ (HasSelection(variant) /\ ExpServicePath \in written)
          => /\ selectedPrinter \in Range(printers)
             /\ fs[ExpServicePath] =
                   File(<<"[Unit]", "Description=ESC/POS Printer Service", "",
                          "[Service]",
                          "ExecStart=-/usr/bin/tee /dev/null > " \o selectedPrinter,
                          "StandardInput=socket">>)
    /\ \A p, q \in DevPaths :
          (p # q) => {i \in 1..6 : serviceFileContent(p)[i] # serviceFileContent(q)[i]} = {5}
    /\ (ExpSocketPath \in written) => (fs[ExpSocketPath] = File(ExpSocketData))

\* the second printer of two was selected and the service unit written for it
C5_Witness ==
    /\ HasSelection(variant)
    /\ ExpServicePath \in written
    /\ Len(printers) = 2
    /\ selectedPrinter = "/dev/usb/lp1"

\* C6: the completion message is printed only when the root check passed, both
\* unit files were written without error and all three commands returned
\* success; a run that has ended has either printed it and exited normally, or
\* exited through a fatal error without printing it.
C6_CompleteOnlyAfterFullSuccess ==
    /\ complete => /\ euid = 0
                   /\ written = {ExpSocketPath, ExpServicePath}
                   /\ applied = ExpCommands
                   /\ pc = "exit" /\ exitCode = 0 /\ fatalMsg = ""
    /\ (pc = "exit") => \/ (complete /\ exitCode = 0 /\ fatalMsg = "")
                        \/ (~complete /\ exitCode = 1
                            /\ fatalMsg \in {"root", "find", "select", "writeSocket",
                                             "writeService", "command"})
    /\ (pc # "exit") => (~complete /\ exitCode = -1 /\ fatalMsg = "")

\* the older version ran to the completion message
C6_Witness ==
    /\ ~HasSelection(variant)
    /\ complete
    /\ pc = "exit"

\* C7: selectPrinter returns printers[choice-1] for a choice that the latest
\* read stored without error and that lies in 1..len(printers); it is the path
\* printed next to that number, the index is never out of range, and a number
\* stored by a read that returned an error is never accepted.
C7_ReturnsListedPrinter ==
    /\ exitCode # 2
    /\ InHist("selected")
          => /\ ~lastRead.err
             /\ lastRead.set
             /\ lastRead.val = choice
             /\ 1 <= choice /\ choice <= Len(printers)
             /\ selectedPrinter = printers[choice]
             /\ <<choice, selectedPrinter>> \in Range(shown)
             /\ devs[selectedPrinter] = "chr"
    /\ (pc \in {"prompt", "scan"})
          => (shown = [i \in 1..Len(printers) |-> <<i, printers[i]>>])

\* with two printers listed, the first read was rejected and the second read
\* chose number 1
C7_Witness ==
    /\ InHist("selected")
    /\ nReads = 2
    /\ choice = 1
    /\ Len(printers) = 2
    /\ selectedPrinter = "/dev/usb/lp0"

\* C8: when no candidate is a character device that can be stat'ed, discovery
\* returns the empty list, selectPrinter returns its error without printing a
\* list, prompting or reading, and the run exits with a fatal error with no
\* file written and no command started.
C8_NoPrinterIsFatal ==
    (HasSelection(variant) /\ InHist("find") /\ \A p \in DevPaths : devs[p] # "chr")
        => /\ printers = <<>>
           /\ pc \in {"select", "exit"}
           /\ (pc = "exit") => (exitCode = 1 /\ fatalMsg = "select")
           /\ shown = <<>> /\ nPrompts = 0 /\ nReads = 0
           /\ fs = fs0 /\ written = {}
           /\ started = <<>> /\ applied = <<>>

\* the glob matched a regular file and a node whose stat fails: fatal exit
C8_Witness ==
    /\ HasSelection(variant)
    /\ pc = "exit"
    /\ fatalMsg = "select"
    /\ devs["/dev/usb/lp0"] = "reg"
    /\ devs["/dev/usb/lp1"] = "staterr"

\* C9: nothing is rolled back at a fatal exit.  A failed socket write leaves
\* the service unit as it was and no command started; a failed service write
\* leaves the socket unit written and no command started; a failed command k
\* leaves both units written and commands 1..k-1 applied.  No command is
\* started unless both units have been written.
C9_NoRollback ==
    /\ (fatalMsg = "writeSocket")
          => /\ fs[ExpServicePath] = fs0[ExpServicePath]
             /\ written = {}
             /\ started = <<>>
    /\ (fatalMsg = "writeService")
          => /\ fs[ExpSocketPath] = File(ExpSocketData)
             /\ written = {ExpSocketPath}
             /\ started = <<>>
    /\ (fatalMsg = "command")
          => /\ fs[ExpSocketPath] = File(ExpSocketData)
             /\ fs[ExpServicePath].exists
             /\ fs[ExpServicePath].data[6] = "StandardInput=socket"
             /\ written = {ExpSocketPath, ExpServicePath}
             /\ started # <<>>
             /\ applied = SubSeq(ExpCommands, 1, Len(started) - 1)
    /\ (started # <<>>) => (written = {ExpSocketPath, ExpServicePath})
    /\ \A p \in UnitDir \ {ExpSocketPath, ExpServicePath} : fs[p] = fs0[p]

\* the service write failed half way: new socket unit, truncated service unit
C9_Witness ==
    /\ fatalMsg = "writeService"
    /\ fs0[ExpSocketPath] = Absent
    /\ fs[ExpSocketPath].exists
    /\ fs[ExpServicePath].exists
    /\ Len(fs[ExpServicePath].data) = 2

\* a read has returned, without error, a number of the list
Accepted ==
    /\ InHist("selected")
    /\ ~lastRead.err
    /\ lastRead.val \in 1..Len(printers)

InLoop == pc \in {"prompt", "scan"}

\* C10: a run as root with at least one printer ends only after some read has
\* returned a number of the list without error, and ends once one has; until
\* then it stays in the prompt loop, prompting again and again, with no file
\* written and no command started; at end-of-file it never leaves the loop.
C10_LoopIsOnlyUnboundedStep ==
    /\ []((HasSelection(variant) /\ euid = 0 /\ printers # <<>> /\ pc = "exit")
             => Accepted)
    /\ (Accepted ~> (pc = "exit"))
    /\ []((HasSelection(variant) /\ ~Accepted)
             => (fs = fs0 /\ written = {} /\ started = <<>>))
    /\ [](InLoop => ([]<>(pc = "prompt") \/ <>Accepted))
    /\ []((InLoop /\ inputLeft = 0) => [](InLoop /\ ~Accepted))
    /\ (HasSelection(variant) /\ euid = 0 /\ \E p \in DevPaths : devs[p] = "chr")
          => <>(InLoop \/ Accepted)

\* stdin is at end-of-file and the loop has gone round more than MaxReads times
C10_Witness ==
    /\ pc = "prompt"
    /\ inputLeft = 0
    /\ nReads = CountCap
    /\ fs = fs0

====
